---- MODULE Spec2Model ----
(***************************************************************************)
(* Model of @entrolytics/react: the EntrolyticsProvider script loader,     *)
(* the waitForTracker bridge and the dispatch API built on it              *)
(* (context.tsx, kept as src/unnamed/part_001).                            *)
(*                                                                         *)
(* The browser is single threaded: every effect run, event handler and     *)
(* timer callback is one atomic action.  The document holds the script     *)
(* elements carrying the reserved id, window.entrolytics is a boolean      *)
(* (present or absent), and the 100ms polls of waitForTracker are entries  *)
(* of one timer queue: all polls use the same delay, so they come due in   *)
(* the order in which they were scheduled.                                 *)
(***************************************************************************)
EXTENDS Integers, Sequences, FiniteSets, TLC

\* ---------------------------------------------------------------- bounds
NumProviders == 2
MaxScripts == 2
MaxCalls == 1
MaxClock == 3
MaxEvents == 4
MaxHttp == 3
MaxRenders == 3
MaxPending == 2
MaxClicks == 2
MaxViews == 3

Providers == 1..NumProviders

\* ------------------------------------------------------------- constants
SCRIPT_ID == "entrolytics-script"
DEFAULT_HOST == <<"https://ng.entrolytics.click">>
Undef == "<undefined>"
EmptyData == [k \in {} |-> ""]

\* JavaScript truthiness of an optional string (if (tag), if (url), ...)
Truthy(s) == s # Undef /\ s # ""

\* { ...a, ...b }: keys of b win
Spread(a, b) == [k \in (DOMAIN a) \cup (DOMAIN b) |-> IF k \in DOMAIN b THEN b[k] ELSE a[k]]

\* obj[key] = value
SetKey(obj, key, value) == Spread(obj, [k \in {key} |-> value])

\* ------------------------------------------------------ provider props
\* a host used as it is given
StripTrailingSlashNone(h) == h

\* A host is a sequence of tokens; a trailing "/" is its own token.
\* host.replace(/\/$/, '')
StripTrailingSlash(h) == IF Len(h) > 0 /\ h[Len(h)] = "/" THEN SubSeq(h, 1, Len(h) - 1) ELSE h

\* domains.join(',')
RECURSIVE Join(_)
Join(ds) == IF Len(ds) = 0 THEN <<>> ELSE IF Len(ds) = 1 THEN <<ds[1]>> ELSE <<ds[1], ",">> \o Join(Tail(ds))

\* props after the destructuring defaults of EntrolyticsProvider
WithDefaults(props) == [websiteId |-> props.websiteId, host |-> IF props.host = <<>> THEN DEFAULT_HOST ELSE props.host, autoTrack |-> props.autoTrack, respectDnt |-> props.respectDnt, domains |-> props.domains, useEdgeRuntime |-> props.useEdgeRuntime, tag |-> props.tag, excludeSearch |-> props.excludeSearch, excludeHash |-> props.excludeHash]

\* the configurations a provider is rendered with (host <<>> = omitted)
PropsA == [websiteId |-> "w1", host |-> <<>>, autoTrack |-> TRUE, respectDnt |-> FALSE, domains |-> <<>>, useEdgeRuntime |-> TRUE, tag |-> Undef, excludeSearch |-> FALSE, excludeHash |-> FALSE]
PropsB == [websiteId |-> "w1", host |-> <<"https://h", "/">>, autoTrack |-> FALSE, respectDnt |-> TRUE, domains |-> <<"a.com", "b.com">>, useEdgeRuntime |-> FALSE, tag |-> "T", excludeSearch |-> TRUE, excludeHash |-> TRUE]
Configs == {WithDefaults(PropsA), WithDefaults(PropsB)}

ScriptSrc(c) == StripTrailingSlash(c.host) \o <<IF c.useEdgeRuntime THEN "/script-edge.js" ELSE "/script.js">>

Dataset(c) ==
  LET d0 == [k \in {"websiteId"} |-> <<c.websiteId>>]
      d1 == IF ~c.autoTrack THEN SetKey(d0, "autoTrack", <<"false">>) ELSE d0
      d2 == IF c.respectDnt THEN SetKey(d1, "doNotTrack", <<"true">>) ELSE d1
      d3 == IF Len(c.domains) > 0 THEN SetKey(d2, "domains", Join(c.domains)) ELSE d2
      d4 == IF Truthy(c.tag) THEN SetKey(d3, "tag", <<c.tag>>) ELSE d3
      d5 == IF c.excludeSearch THEN SetKey(d4, "excludeSearch", <<"true">>) ELSE d4
  IN  IF c.excludeHash THEN SetKey(d5, "excludeHash", <<"true">>) ELSE d5

\* ------------------------------------------------------------------ state
VARIABLES
  doc,          \* script elements with id SCRIPT_ID in the document, in document order
  scripts,      \* every script element created so far: owner, src, dataset, load state
  tracker,      \* window.entrolytics is defined
  mounted,      \* provider p is mounted
  config,       \* props of provider p (effect dependencies)
  beforeSend,   \* provider p is rendered with a beforeSend callback
  isReady,      \* useState(false)
  isLoadedRef,  \* useRef(false)
  tagRef,       \* useRef(tag)
  injected,     \* the last effect run of p appended a script and returned a cleanup
  calls,        \* dispatch calls issued so far
  timerQ,       \* outstanding setTimeout(tryExecute, 100) timers, in due order
  received,     \* invocations of window.entrolytics.track / identify, in order
  mountTransitions,  \* not-ready -> ready transitions of p in this mount
  epochTransitions,  \* ... since the last effect run of p (mount or configuration change)
  epochDone,    \* since the last effect run of p its script was found or finished loading
  mountDone,    \* in this mount a script of p was found or finished loading
  analyticsIn,  \* props and environment of the <Analytics> instance that wraps provider p
  analyticsOut, \* what that instance rendered: "none" (not rendered), "null", "provider"
  warned,       \* console.warn was called by an <Analytics>
  formMounted,  \* a component using useFormTracking is mounted and the page is loaded
  trackTiming,  \* its trackTiming option
  stateRef,     \* stateRef.current of useFormTracking
  now,          \* Date.now()
  formEvents,   \* the form events handed to fetch, in order
  httpCalls,    \* calls of trackEvent / trackVital so far: how the promise of each settled
  httpRequests, \* calls of fetch made by them, in order
  httpErrors,   \* number of console.error calls made by them
  wvMounted,    \* the component using useWebVitals: "no" (not yet), "yes", "gone"
  wvAutoInit,   \* its autoInit option
  wvReady,      \* isReady as it reads it from the context
  wvInitialized, \* initialized.current
  wvImports,    \* import('web-vitals') promises not yet settled
  wvRegistered, \* times the five listeners were registered with the library
  wvMissing,    \* times the import was rejected (console.debug)
  wvErrors,     \* rejections left unhandled
  wvRenders,    \* re-renders so far
  wvReportAll,  \* its reportAllChanges option
  wvCaptured,   \* reportAllChanges as the effect run that attached saw it
  comp,         \* the consumer component last rendered: its props and its output
  clicks,       \* what each click on (or call through) that consumer did
  pvMounted,    \* the component using useTrackPageView: "no", "yes", "gone"
  prevUrlRef,   \* prevUrlRef.current
  pvHistory     \* the url and referrer of each of its renders, and whether
                \* trackPageView was a new function in it

vars == <<doc, scripts, tracker, mounted, config, beforeSend, isReady, isLoadedRef, tagRef, injected, calls, timerQ, received, mountTransitions, epochTransitions, epochDone, mountDone, analyticsIn, analyticsOut, warned, formMounted, trackTiming, stateRef, now, formEvents, httpCalls, httpRequests, httpErrors, wvMounted, wvAutoInit, wvReady, wvInitialized, wvImports, wvRegistered, wvMissing, wvErrors, wvRenders, wvReportAll, wvCaptured, comp, clicks, pvMounted, prevUrlRef, pvHistory>>

provVars == <<mounted, config, beforeSend, isReady, isLoadedRef, tagRef, injected, mountTransitions, epochTransitions, epochDone, mountDone>>
domVars == <<doc, scripts, tracker>>
callVars == <<calls, timerQ, received>>
analyticsVars == <<analyticsIn, analyticsOut, warned>>
formVars == <<formMounted, trackTiming, stateRef, now, formEvents>>
httpVars == <<httpCalls, httpRequests, httpErrors>>
vitalsVars == <<wvMounted, wvAutoInit, wvReady, wvInitialized, wvImports, wvRegistered, wvMissing, wvErrors, wvRenders, wvReportAll, wvCaptured>>
clickVars == <<comp, clicks>>
pageViewVars == <<pvMounted, prevUrlRef, pvHistory>>
laterVars == <<httpVars, vitalsVars, clickVars, pageViewVars>>

\* a time that is null or undefined
Null == -1

\* props and environment of an <Analytics> that is not rendered
NoAnalytics == [websiteId |-> Undef, host |-> <<>>, reactAppId |-> Undef, viteId |-> Undef, reactAppHost |-> <<>>, viteHost |-> <<>>, nodeEnv |-> Undef, viteDev |-> FALSE]

\* the initial stateRef.current of useFormTracking, and the value trackSubmit resets it to
FreshState == [startTime |-> Null, fieldStartTimes |-> [f \in {} |-> 0], hasInteracted |-> FALSE, lastFieldName |-> Undef]

\* no consumer component rendered yet
NoComp == [kind |-> "none", inside |-> FALSE, event |-> Undef, data |-> EmptyData, href |-> Undef, childValid |-> FALSE, props |-> {}, onClick |-> FALSE, out |-> "none", outProps |-> {}]

Init ==
  /\ doc = <<>>
  /\ scripts = <<>>
  /\ tracker = FALSE
  /\ mounted = [p \in Providers |-> FALSE]
  /\ config = [p \in Providers |-> WithDefaults(PropsA)]
  /\ beforeSend = [p \in Providers |-> FALSE]
  /\ isReady = [p \in Providers |-> FALSE]
  /\ isLoadedRef = [p \in Providers |-> FALSE]
  /\ tagRef = [p \in Providers |-> Undef]
  /\ injected = [p \in Providers |-> FALSE]
  /\ calls = <<>>
  /\ timerQ = <<>>
  /\ received = <<>>
  /\ mountTransitions = [p \in Providers |-> 0]
  /\ epochTransitions = [p \in Providers |-> 0]
  /\ epochDone = [p \in Providers |-> FALSE]
  /\ mountDone = [p \in Providers |-> FALSE]
  /\ analyticsIn = [p \in Providers |-> NoAnalytics]
  /\ analyticsOut = [p \in Providers |-> "none"]
  /\ warned = FALSE
  /\ formMounted = FALSE
  /\ trackTiming = TRUE
  /\ stateRef = FreshState
  /\ now = 1
  /\ formEvents = <<>>
  /\ httpCalls = <<>>
  /\ httpRequests = <<>>
  /\ httpErrors = 0
  /\ wvMounted = "no"
  /\ wvAutoInit = TRUE
  /\ wvReady = FALSE
  /\ wvInitialized = FALSE
  /\ wvImports = 0
  /\ wvRegistered = 0
  /\ wvMissing = 0
  /\ wvErrors = 0
  /\ wvRenders = 0
  /\ wvReportAll = FALSE
  /\ wvCaptured = "none"
  /\ comp = NoComp
  /\ clicks = <<>>
  /\ pvMounted = "no"
  /\ prevUrlRef = Undef
  /\ pvHistory = <<>>

\* ---------------------------------------------------------- script loader
\* a lookup that never finds the element
GetElementByIdNull(d) == 0

\* document.getElementById(SCRIPT_ID): the first such element, 0 for null
GetElementById(d) == IF Len(d) > 0 THEN d[1] ELSE 0

\* existingScript.remove()
RemoveElement(d, e) == SelectSeq(d, LAMBDA x : x # e)

\* a cleanup that leaves the element in the document
CleanupKeep(d) == d

\* the cleanup returned by the effect
Cleanup(d) == IF GetElementById(d) # 0 THEN RemoveElement(d, GetElementById(d)) ELSE d

\* an effect that returns the cleanup from the existing-script branch too
EffectCleanupAlways(inj, d) == Cleanup(d)

\* what React runs before the next effect run and at unmount: the cleanup
\* the last run returned, which is none when that run found the element
EffectCleanup(inj, d) == IF inj THEN Cleanup(d) ELSE d

\* an effect that forgets setIsReady(true) in the existing-script branch
EffectReadyKeep(found, ready) == ready

\* an effect that resets readiness whenever it injects a script
EffectReadyReset(found, ready) == found

\* isReady after an effect run: setIsReady(true) in the existing-script branch,
\* untouched when the script is injected
EffectReady(found, ready) == IF found THEN TRUE ELSE ready

\* the <script> built by the effect
NewScript(p, c) == [id |-> SCRIPT_ID, owner |-> p, src |-> ScriptSrc(c), dataset |-> Dataset(c), defer |-> TRUE, state |-> "loading", pageRemoved |-> FALSE]

\* One run of the injection effect of provider p with props c, on document d
\* and readiness rdy (the state left by the cleanup of the previous run).
RunEffect(p, c, d, rdy) ==
  LET found == GetElementById(d) # 0
      e == Len(scripts) + 1
      rdy2 == EffectReady(found, rdy)
      up == IF ~rdy /\ rdy2 THEN 1 ELSE 0
  IN  /\ found \/ Len(scripts) < MaxScripts
      /\ doc' = IF found THEN d ELSE Append(d, e)
      /\ scripts' = IF found THEN scripts ELSE Append(scripts, NewScript(p, c))
      /\ isLoadedRef' = [isLoadedRef EXCEPT ![p] = IF found THEN TRUE ELSE isLoadedRef[p]]
      /\ isReady' = [isReady EXCEPT ![p] = rdy2]
      /\ injected' = [injected EXCEPT ![p] = ~found]
      /\ epochDone' = [epochDone EXCEPT ![p] = found]
      /\ mountDone' = [mountDone EXCEPT ![p] = IF mounted[p] THEN @ \/ found ELSE found]
      /\ epochTransitions' = [epochTransitions EXCEPT ![p] = up]
      /\ mountTransitions' = [mountTransitions EXCEPT ![p] = IF mounted[p] THEN @ + up ELSE up]

\* first render of <EntrolyticsProvider {...c} beforeSend=...> and its effect
Mount(p, c, bs) ==
  /\ ~mounted[p]
  /\ mounted' = [mounted EXCEPT ![p] = TRUE]
  /\ config' = [config EXCEPT ![p] = c]
  /\ beforeSend' = [beforeSend EXCEPT ![p] = bs]
  /\ tagRef' = [tagRef EXCEPT ![p] = c.tag]
  /\ RunEffect(p, c, doc, FALSE)
  /\ UNCHANGED <<tracker, calls, timerQ, received>>

\* re-render with a changed dependency: cleanup of the previous run, then the effect
ConfigChange(p, c) ==
  /\ mounted[p]
  /\ c # config[p]
  /\ config' = [config EXCEPT ![p] = c]
  /\ RunEffect(p, c, EffectCleanup(injected[p], doc), isReady[p])
  /\ UNCHANGED <<tracker, mounted, beforeSend, tagRef, calls, timerQ, received>>

\* re-render with another beforeSend: not a dependency of the effect
BeforeSendChange(p, bs) ==
  /\ mounted[p]
  /\ bs # beforeSend[p]
  /\ beforeSend' = [beforeSend EXCEPT ![p] = bs]
  /\ UNCHANGED <<domVars, mounted, config, isReady, isLoadedRef, tagRef, injected, mountTransitions, epochTransitions, epochDone, mountDone, callVars>>

\* unmount: the cleanup runs, the component instance and its state are gone
Unmount(p) ==
  /\ mounted[p]
  /\ mounted' = [mounted EXCEPT ![p] = FALSE]
  /\ doc' = EffectCleanup(injected[p], doc)
  /\ scripts' = [e \in DOMAIN scripts |-> IF scripts[e].owner = p THEN [scripts[e] EXCEPT !.owner = 0] ELSE scripts[e]]
  /\ isReady' = [isReady EXCEPT ![p] = FALSE]
  /\ isLoadedRef' = [isLoadedRef EXCEPT ![p] = FALSE]
  /\ tagRef' = [tagRef EXCEPT ![p] = Undef]
  /\ injected' = [injected EXCEPT ![p] = FALSE]
  /\ beforeSend' = [beforeSend EXCEPT ![p] = FALSE]
  /\ config' = [config EXCEPT ![p] = WithDefaults(PropsA)]
  /\ mountTransitions' = [mountTransitions EXCEPT ![p] = 0]
  /\ epochTransitions' = [epochTransitions EXCEPT ![p] = 0]
  /\ epochDone' = [epochDone EXCEPT ![p] = FALSE]
  /\ mountDone' = [mountDone EXCEPT ![p] = FALSE]
  /\ calls' = [i \in DOMAIN calls |-> IF calls[i].p = p /\ calls[i].live /\ calls[i].status = "pending" THEN [calls[i] EXCEPT !.live = FALSE, !.heldTag = tagRef[p], !.heldReady = isReady[p]] ELSE calls[i]]
  /\ UNCHANGED <<tracker, timerQ, received>>

\* the external script executes (it installs window.entrolytics), then its load
\* event runs script.onload.  A script removed from the document after its fetch
\* started may still execute; the handler of an unmounted provider sets nothing.
OwnScript(p, e) == injected[p] /\ scripts[e].owner = p /\ \A f \in DOMAIN scripts : scripts[f].owner = p => f <= e

ScriptLoad(e) ==
  LET p == scripts[e].owner
      up == IF p # 0 /\ ~isReady[p] THEN 1 ELSE 0
  IN  /\ scripts[e].state = "loading"
      /\ scripts' = [scripts EXCEPT ![e].state = "loaded"]
      /\ tracker' = TRUE
      /\ isLoadedRef' = IF p # 0 THEN [isLoadedRef EXCEPT ![p] = TRUE] ELSE isLoadedRef
      /\ isReady' = IF p # 0 THEN [isReady EXCEPT ![p] = TRUE] ELSE isReady
      /\ mountTransitions' = IF p # 0 THEN [mountTransitions EXCEPT ![p] = @ + up] ELSE mountTransitions
      /\ epochTransitions' = IF p # 0 THEN [epochTransitions EXCEPT ![p] = @ + up] ELSE epochTransitions
      /\ mountDone' = IF p # 0 THEN [mountDone EXCEPT ![p] = TRUE] ELSE mountDone
      /\ epochDone' = IF p # 0 /\ OwnScript(p, e) THEN [epochDone EXCEPT ![p] = TRUE] ELSE epochDone
      /\ UNCHANGED <<doc, mounted, config, beforeSend, tagRef, injected, callVars>>

\* the request for the script fails: no handler is attached for that
ScriptError(e) ==
  /\ scripts[e].state = "loading"
  /\ scripts' = [scripts EXCEPT ![e].state = "failed"]
  /\ UNCHANGED <<doc, tracker, provVars, callVars>>

\* other code of the page takes the element with the reserved id out of the
\* document; the provider that appended it is not told
ExternalRemove ==
  /\ GetElementById(doc) # 0
  /\ doc' = RemoveElement(doc, GetElementById(doc))
  /\ scripts' = [scripts EXCEPT ![GetElementById(doc)].pageRemoved = TRUE]
  /\ UNCHANGED <<tracker, provVars, callVars>>

\* ---------------------------------------------------------- tracker bridge
\* a bridge that takes the tracker to be there without looking
WindowEntrolyticsAlways(w) == TRUE

\* the value of window.entrolytics as the bridge reads it (truthy or not)
WindowEntrolytics(w) == w

\* a tryExecute that gives up instead of polling again
SetTimeoutDropped(q, i) == q

\* a poll that arms two timers per miss
SetTimeoutTwice(q, i) == Append(Append(q, i), i)

\* setTimeout(tryExecute, 100): the timer comes due after those already set
SetTimeout(q, i) == Append(q, i)

\* a callback that uses the tag captured when the dispatch was issued
CallbackTagAtIssue(issuedTag, currentTag) == issuedTag

\* tagRef.current as read inside a bridge callback: the value held when the
\* callback runs, not the one held when the dispatch was issued
CallbackTag(issuedTag, currentTag) == currentTag

\* ------------------------------------------------------------ dispatch API
NoArgs == [name |-> Undef, data |-> EmptyData, url |-> Undef, referrer |-> Undef, revenue |-> Undef, currency |-> Undef, userId |-> Undef]

\* the calls applications make, one or two argument lists per operation
DispatchInputs ==
  { [op |-> "track", args |-> [NoArgs EXCEPT !.name = "x", !.data = [k \in {"a"} |-> "1"]]],
    [op |-> "trackPageView", args |-> [NoArgs EXCEPT !.url = "/p"]],
    [op |-> "trackPageView", args |-> NoArgs],
    [op |-> "trackRevenue", args |-> [NoArgs EXCEPT !.name = "purchase", !.revenue = "10", !.data = [k \in {"sku"} |-> "abc"]]],
    [op |-> "trackRevenue", args |-> [NoArgs EXCEPT !.name = "purchase", !.revenue = "10", !.currency = "EUR", !.data = [k \in {"currency", "revenue"} |-> "?"]]],
    [op |-> "useTrackRevenue", args |-> [NoArgs EXCEPT !.name = "subscription", !.revenue = "10", !.data = [k \in {"plan"} |-> "pro"]]],
    [op |-> "trackOutboundLink", args |-> [NoArgs EXCEPT !.url = "https://o", !.data = [k \in {"url"} |-> "?"]]],
    [op |-> "identify", args |-> [NoArgs EXCEPT !.data = [k \in {"plan"} |-> "pro"]]],
    [op |-> "identifyUser", args |-> [NoArgs EXCEPT !.userId = "u1", !.data = [k \in {"id"} |-> "?"]]] }

\* what beforeSend may return for a payload (its type is unknown | null): null,
\* an object, or a value that takes no property, such as undefined
BeforeSendResults == {"null", "object", "undefined"}

\* the default that leaves an omitted currency undefined
CurrencyOmitted(c) == c

\* the default value of trackRevenue's currency parameter
Currency(c) == IF c = Undef THEN "USD" ELSE c

\* obj.tag = tag when the tag is truthy
Stamp(obj, tag) == IF Truthy(tag) THEN SetKey(obj, "tag", tag) ELSE obj

\* the payload track() builds and hands to beforeSend; it is not what is forwarded
TrackPayload(a, tag) == Stamp([k \in {"name", "data"} |-> IF k = "name" THEN <<a.name>> ELSE <<a.data>>], tag)

PageViewPayload(a, tag) ==
  LET p0 == EmptyData
      p1 == IF Truthy(a.url) THEN SetKey(p0, "url", a.url) ELSE p0
      p2 == IF Truthy(a.referrer) THEN SetKey(p1, "referrer", a.referrer) ELSE p1
  IN  Stamp(p2, tag)

RevenueData(a, tag) == Stamp(Spread(a.data, [k \in {"revenue", "currency"} |-> IF k = "revenue" THEN a.revenue ELSE Currency(a.currency)]), tag)

\* the function useTrackRevenue returns: its own default, then the context's
\* trackRevenue with all four arguments
UseTrackRevenue(a) == [a EXCEPT !.currency = Currency(@)]

NoCall == [fn |-> "none", name |-> Undef, data |-> EmptyData]

\* payload.tag = ... on a payload that is undefined: a TypeError ends the callback
Thrown == [fn |-> "throw", name |-> Undef, data |-> EmptyData]

\* the callback of track(): beforeSend, the null check, the tag stamp, the call
TrackCall(a, tag, bsResult) == IF bsResult = "null" THEN NoCall ELSE IF bsResult = "undefined" /\ Truthy(tag) THEN Thrown ELSE [fn |-> "track", name |-> a.name, data |-> a.data]

\* the invocation of window.entrolytics made by the callback of each operation,
\* given tagRef.current and the result of beforeSend ("none" when not configured)
TrackerCall(op, a, tag, bsResult) ==
  CASE op = "track" -> TrackCall(a, tag, bsResult)
    [] op = "trackPageView" -> [fn |-> "track", name |-> Undef, data |-> PageViewPayload(a, tag)]
    [] op = "trackRevenue" -> [fn |-> "track", name |-> a.name, data |-> RevenueData(a, tag)]
    [] op = "useTrackRevenue" -> [fn |-> "track", name |-> a.name, data |-> RevenueData(UseTrackRevenue(a), tag)]
    [] op = "trackOutboundLink" -> [fn |-> "track", name |-> "outbound-link-click", data |-> Spread(a.data, [k \in {"url"} |-> a.url])]
    [] op = "identify" -> [fn |-> "identify", name |-> Undef, data |-> a.data]
    [] op = "identifyUser" -> [fn |-> "identify", name |-> Undef, data |-> Spread([k \in {"id"} |-> a.userId], a.data)]

\* the operations whose callback reads tagRef.current
ReadsTag(op) == op \in {"track", "trackPageView", "trackRevenue", "useTrackRevenue"}

\* the results beforeSend can give for a call: only track() consults it
ResultsFor(rec) == IF rec.bs THEN BeforeSendResults ELSE {"none"}

\* tagRef.current and isReady of the provider instance a call was issued on
HeldTag(rec) == IF rec.live THEN tagRef[rec.p] ELSE rec.heldTag
HeldReady(rec) == IF rec.live THEN isReady[rec.p] ELSE rec.heldReady

\* the call record after its callback ran with beforeSend result r
AfterCallback(rec, r, sync) ==
  LET tc == TrackerCall(rec.op, rec.args, CallbackTag(rec.issuedTag, HeldTag(rec)), r)
  IN  [rec EXCEPT !.fires = @ + 1, !.sync = sync, !.firedAbsent = @ \/ ~tracker, !.firedTag = IF ReadsTag(rec.op) THEN HeldTag(rec) ELSE Undef, !.bsCalls = @ + (IF r = "none" THEN 0 ELSE 1), !.bsResult = r, !.status = IF tc.fn = "none" THEN "suppressed" ELSE IF tc.fn = "throw" THEN "threw" ELSE IF WindowEntrolytics(tracker) THEN "delivered" ELSE "skipped"]

\* what the tracker receives from that callback (window.entrolytics?.track(...))
Invocations(i, rec, r) ==
  LET tc == TrackerCall(rec.op, rec.args, CallbackTag(rec.issuedTag, HeldTag(rec)), r)
  IN  IF tc.fn \in {"none", "throw"} \/ ~WindowEntrolytics(tracker) THEN <<>>
      ELSE <<[call |-> i, fn |-> tc.fn, name |-> tc.name, data |-> tc.data, ready |-> HeldReady(rec), present |-> tracker]>>

\* a tracker that puts each invocation ahead of those it already took
DeliverFirst(rcv, inv) == inv \o rcv

\* window.entrolytics takes the invocations in the order they are made
Deliver(rcv, inv) == rcv \o inv

\* a dispatch operation called on the context of provider p, as the call
\* after fewer than n others: waitForTracker runs tryExecute at once
DispatchN(p, in, n) ==
  LET i == Len(calls) + 1
      rec == [op |-> in.op, args |-> in.args, p |-> p, bs |-> (in.op = "track" /\ beforeSend[p]), bsResult |-> "none", issuedAbsent |-> ~tracker, issuedTag |-> IF ReadsTag(in.op) THEN tagRef[p] ELSE Undef, live |-> TRUE, heldTag |-> Undef, heldReady |-> FALSE, fires |-> 0, sync |-> FALSE, firedAbsent |-> FALSE, firedTag |-> Undef, bsCalls |-> 0, status |-> "pending"]
  IN  /\ mounted[p]
      /\ Len(calls) < n
      /\ IF WindowEntrolytics(tracker)
           THEN \E r \in ResultsFor(rec) :
                  /\ calls' = Append(calls, AfterCallback(rec, r, TRUE))
                  /\ received' = Deliver(received, Invocations(i, rec, r))
                  /\ timerQ' = timerQ
           ELSE /\ calls' = Append(calls, rec)
                /\ timerQ' = SetTimeout(timerQ, i)
                /\ received' = received
      /\ UNCHANGED <<domVars, provVars>>

Dispatch(p, in) == DispatchN(p, in, MaxCalls)

\* the earliest timer comes due: tryExecute runs again
TimerFire ==
  /\ Len(timerQ) > 0
  /\ LET i == Head(timerQ)
         rec == calls[i]
     IN  IF WindowEntrolytics(tracker)
           THEN \E r \in ResultsFor(rec) :
                  /\ calls' = [calls EXCEPT ![i] = AfterCallback(rec, r, FALSE)]
                  /\ received' = Deliver(received, Invocations(i, rec, r))
                  /\ timerQ' = Tail(timerQ)
           ELSE /\ timerQ' = SetTimeout(Tail(timerQ), i)
                /\ UNCHANGED <<calls, received>>
  /\ UNCHANGED <<domVars, provVars>>

\* setTag(newTag) called on the context of provider p
SetTagInputs == {"T"}

SetTag(p, newTag) ==
  /\ mounted[p]
  /\ tagRef' = [tagRef EXCEPT ![p] = newTag]
  /\ UNCHANGED <<domVars, mounted, config, beforeSend, isReady, isLoadedRef, injected, mountTransitions, epochTransitions, epochDone, mountDone, callVars>>

\* ---------------------------------------------------------------- Analytics
\* props and environment an <Analytics> is rendered with
AnalyticsInputs ==
  { [NoAnalytics EXCEPT !.nodeEnv = "production"],
    [NoAnalytics EXCEPT !.nodeEnv = "development"],
    [NoAnalytics EXCEPT !.viteDev = TRUE],
    [NoAnalytics EXCEPT !.websiteId = "", !.nodeEnv = "production", !.host = <<"https://h", "/">>],
    [NoAnalytics EXCEPT !.websiteId = "w1", !.nodeEnv = "production"],
    [NoAnalytics EXCEPT !.reactAppId = "rid", !.reactAppHost = <<"https://r">>, !.nodeEnv = "development"],
    [NoAnalytics EXCEPT !.viteId = "vid", !.viteHost = <<"https://v">>, !.host = <<"https://h", "/">>],
    [NoAnalytics EXCEPT !.websiteId = "w1", !.reactAppId = "rid", !.viteId = "vid", !.viteDev = TRUE] }

\* websiteId || REACT_APP_ENTROLYTICS_WEBSITE_ID || VITE_ENTROLYTICS_WEBSITE_ID
FinalWebsiteId(in) == IF Truthy(in.websiteId) THEN in.websiteId ELSE IF Truthy(in.reactAppId) THEN in.reactAppId ELSE in.viteId

\* host || REACT_APP_ENTROLYTICS_HOST || VITE_ENTROLYTICS_HOST
FinalHost(in) == IF Len(in.host) > 0 THEN in.host ELSE IF Len(in.reactAppHost) > 0 THEN in.reactAppHost ELSE in.viteHost

IsDev(in) == in.nodeEnv = "development" \/ in.viteDev

\* an <Analytics> that skips only in development
RendersNullDevOnly(isDev, finalWebsiteId) == isDev /\ ~Truthy(finalWebsiteId)

\* the two early returns of Analytics
RendersNull(isDev, finalWebsiteId) == (isDev /\ ~Truthy(finalWebsiteId)) \/ ~Truthy(finalWebsiteId)

\* the props of the provider Analytics renders; the rest props are left at their defaults
AnalyticsProps(in) == WithDefaults([PropsA EXCEPT !.websiteId = FinalWebsiteId(in), !.host = FinalHost(in)])

\* first render of the <Analytics> around provider p
AnalyticsRender(p, in) ==
  /\ analyticsOut[p] = "none"
  /\ ~mounted[p]
  /\ analyticsIn' = [analyticsIn EXCEPT ![p] = in]
  /\ warned' = (warned \/ (IsDev(in) /\ ~Truthy(FinalWebsiteId(in))))
  /\ IF RendersNull(IsDev(in), FinalWebsiteId(in))
       THEN /\ analyticsOut' = [analyticsOut EXCEPT ![p] = "null"]
            /\ UNCHANGED <<domVars, provVars, callVars>>
       ELSE /\ analyticsOut' = [analyticsOut EXCEPT ![p] = "provider"]
            /\ Mount(p, AnalyticsProps(in), FALSE)
  /\ UNCHANGED <<formVars, laterVars>>

\* that <Analytics> unmounts, and with it the provider it rendered
AnalyticsUnmount(p) ==
  /\ analyticsOut[p] # "none"
  /\ analyticsOut' = [analyticsOut EXCEPT ![p] = "none"]
  /\ analyticsIn' = [analyticsIn EXCEPT ![p] = NoAnalytics]
  /\ IF mounted[p] THEN Unmount(p) ELSE UNCHANGED <<domVars, provVars, callVars>>
  /\ UNCHANGED <<warned, formVars, laterVars>>

\* ------------------------------------------------------------ form tracking
\* the named fields of the form; an element with neither name nor id gives ""
Fields == {"email", "name"}
Targets == Fields \cup {""}

\* truthiness of a time: null, undefined and 0 are falsy
TruthyTime(t) == t # Null /\ t # 0

\* fieldStartTimes.get(k)
MapGet(m, k) == IF k \in DOMAIN m THEN m[k] ELSE Null

\* a map that keeps the first value stored under a key
MapSetIfAbsent(m, k, v) == IF k \in DOMAIN m THEN m ELSE SetKey(m, k, v)

\* fieldStartTimes.set(k, v)
MapSet(m, k, v) == SetKey(m, k, v)

\* the data of a form event; at is the time fetch was called with it
NoEvent == [eventType |-> Undef, fieldName |-> Undef, timeOnField |-> Null, timeSinceStart |-> Null, success |-> Undef, errorMessage |-> Undef, at |-> Null]

\* state.startTime ? Date.now() - state.startTime : undefined
TimeSinceStart(st, t) == IF TruthyTime(st.startTime) THEN t - st.startTime ELSE Null

\* a trackStart that records the time and sends nothing
StartEventsNone(st, t) == <<>>

\* trackStart: the event it sends and the state it leaves
StartEvents(st, t) == IF st.startTime # Null THEN <<>> ELSE <<[NoEvent EXCEPT !.eventType = "start", !.at = t]>>

\* a trackStart that does not record that the session started
StartStateForgets(st, t) == st

StartState(st, t) == IF st.startTime # Null THEN st ELSE [st EXCEPT !.startTime = t]

\* trackFieldFocus(fieldName): the state it leaves and the events it sends
FocusState(st, f, t, timing) ==
  LET s1 == IF ~st.hasInteracted THEN StartState([st EXCEPT !.hasInteracted = TRUE], t) ELSE st
      s2 == IF timing THEN [s1 EXCEPT !.fieldStartTimes = MapSet(@, f, t)] ELSE s1
  IN  [s2 EXCEPT !.lastFieldName = f]

FocusEvents(st, f, t, timing) == (IF ~st.hasInteracted THEN StartEvents(st, t) ELSE <<>>) \o <<[NoEvent EXCEPT !.eventType = "field_focus", !.fieldName = f, !.timeSinceStart = TimeSinceStart(FocusState(st, f, t, timing), t), !.at = t]>>

\* trackFieldBlur(fieldName)
BlurEvents(st, f, t) == <<[NoEvent EXCEPT !.eventType = "field_blur", !.fieldName = f, !.timeOnField = IF TruthyTime(MapGet(st.fieldStartTimes, f)) THEN t - MapGet(st.fieldStartTimes, f) ELSE Null, !.timeSinceStart = TimeSinceStart(st, t), !.at = t]>>

\* trackFieldError(fieldName, errorMessage)
ErrorEvents(st, f, msg, t) == <<[NoEvent EXCEPT !.eventType = "field_error", !.fieldName = f, !.errorMessage = msg, !.timeSinceStart = TimeSinceStart(st, t), !.at = t]>>

\* trackSubmit(success): the event, then the reset
SubmitEvents(st, success, t) == <<[NoEvent EXCEPT !.eventType = "submit", !.success = success, !.timeSinceStart = TimeSinceStart(st, t), !.at = t]>>

\* a reset that forgets everything but the interaction flag
SubmitResetKeepsInteracted(st) == [FreshState EXCEPT !.hasInteracted = st.hasInteracted]

SubmitReset(st) == FreshState

\* trackAbandon, and handleBeforeUnload which calls it
AbandonEvents(st, t) == IF ~st.hasInteracted THEN <<>> ELSE <<[NoEvent EXCEPT !.eventType = "abandon", !.fieldName = IF Truthy(st.lastFieldName) THEN st.lastFieldName ELSE Undef, !.timeSinceStart = TimeSinceStart(st, t), !.at = t]>>

\* an unload handler that reports an abandon without looking at the state
UnloadEventsUnguarded(st, t) == AbandonEvents([st EXCEPT !.hasInteracted = TRUE], t)

UnloadEvents(st, t) == IF st.hasInteracted /\ TruthyTime(st.startTime) THEN AbandonEvents(st, t) ELSE <<>>

\* trackEvent hands each event to fetch before its first await, so events are
\* sent in call order; a rejected request is logged and changes nothing
TrackEvents(evs) ==
  /\ Len(formEvents) + Len(evs) <= MaxEvents
  /\ formEvents' = formEvents \o evs

\* the component that calls useFormTracking({trackTiming}) mounts on a loaded page
FormMount(timing) ==
  /\ ~formMounted
  /\ formEvents = <<>>
  /\ formMounted' = TRUE
  /\ trackTiming' = timing
  /\ stateRef' = FreshState
  /\ UNCHANGED <<now, formEvents, domVars, provVars, callVars, analyticsVars, laterVars>>

\* focusin on an element of the form: handleFocus
FocusIn(target) ==
  /\ formMounted
  /\ IF target = ""
       THEN UNCHANGED <<stateRef, formEvents>>
       ELSE /\ stateRef' = FocusState(stateRef, target, now, trackTiming)
            /\ TrackEvents(FocusEvents(stateRef, target, now, trackTiming))
  /\ UNCHANGED <<formMounted, trackTiming, now, domVars, provVars, callVars, analyticsVars, laterVars>>

\* focusout on an element of the form: handleBlur
FocusOut(target) ==
  /\ formMounted
  /\ IF target = ""
       THEN UNCHANGED formEvents
       ELSE TrackEvents(BlurEvents(stateRef, target, now))
  /\ UNCHANGED <<formMounted, trackTiming, stateRef, now, domVars, provVars, callVars, analyticsVars, laterVars>>

FieldError(f, msg) ==
  /\ formMounted
  /\ TrackEvents(ErrorEvents(stateRef, f, msg, now))
  /\ UNCHANGED <<formMounted, trackTiming, stateRef, now, domVars, provVars, callVars, analyticsVars, laterVars>>

\* trackStart() called by the application
ManualStart ==
  /\ formMounted
  /\ stateRef' = StartState(stateRef, now)
  /\ TrackEvents(StartEvents(stateRef, now))
  /\ UNCHANGED <<formMounted, trackTiming, now, domVars, provVars, callVars, analyticsVars, laterVars>>

\* trackSubmit(success) called by the application's submit handler
Submit(success) ==
  /\ formMounted
  /\ TrackEvents(SubmitEvents(stateRef, success, now))
  /\ stateRef' = SubmitReset(stateRef)
  /\ UNCHANGED <<formMounted, trackTiming, now, domVars, provVars, callVars, analyticsVars, laterVars>>

\* the window's beforeunload event: handleBeforeUnload runs; the page then
\* unloads, or stays when the navigation is cancelled or leaves the page in place
BeforeUnload(leaves) ==
  /\ formMounted
  /\ TrackEvents(UnloadEvents(stateRef, now))
  /\ formMounted' = ~leaves
  /\ UNCHANGED <<trackTiming, stateRef, now, domVars, provVars, callVars, analyticsVars, laterVars>>

\* Date.now() advances
Tick ==
  /\ formMounted
  /\ now < MaxClock
  /\ now' = now + 1
  /\ UNCHANGED <<formMounted, trackTiming, stateRef, formEvents, domVars, provVars, callVars, analyticsVars, laterVars>>

\* ------------------------------------------------------ direct HTTP trackers
\* what fetch does with a request: its promise resolves (whatever the status
\* of the response), fetch throws at once, or its promise rejects
FetchOutcomes == {"ok", "throws", "rejects"}
HttpKinds == {"form", "vitals"}

\* the calls of fetch made by call i of trackEvent / trackVital
HttpRequests(i, kind, outcome) == <<[call |-> i, kind |-> kind, outcome |-> outcome]>>

\* a tracker without the try/catch around the awaited fetch
SettledUncaught(outcome) == IF outcome = "ok" THEN "resolved" ELSE "rejected"

\* how the promise returned by the async tracker settles: fetch is called and
\* awaited inside try, the catch logs
Settled(outcome) == "resolved"

\* console.error in the catch
Logged(outcome) == IF outcome = "ok" THEN 0 ELSE 1

\* a component calls trackEvent (form) or trackVital (vitals)
HttpTrack(kind, outcome) ==
  /\ Len(httpCalls) < MaxHttp
  /\ httpCalls' = Append(httpCalls, [kind |-> kind, settled |-> Settled(outcome)])
  /\ httpRequests' = httpRequests \o HttpRequests(Len(httpCalls) + 1, kind, outcome)
  /\ httpErrors' = httpErrors + Logged(outcome)
  /\ UNCHANGED <<domVars, provVars, callVars, analyticsVars, formVars, vitalsVars, clickVars, pageViewVars>>

\* ---------------------------------------------------------------- web vitals
\* an effect that attaches on every run with autoInit and isReady
SkipsInitAlways(autoInit, ready, initialized) == ~autoInit \/ ~ready

\* the early return of the auto-init effect
SkipsInit(autoInit, ready, initialized) == ~autoInit \/ ~ready \/ initialized

\* a rejected import('web-vitals') is taken by .catch, which only logs
UnhandledRejections(found) == 0

\* one run of the auto-init effect with the options and readiness of this render
VitalsEffect(autoInit, ready, reportAll) ==
  /\ wvAutoInit' = autoInit
  /\ wvReady' = ready
  /\ wvReportAll' = reportAll
  /\ wvCaptured' = (IF SkipsInit(autoInit, ready, wvInitialized) THEN wvCaptured ELSE IF reportAll THEN "all" ELSE "final")
  /\ wvInitialized' = (IF SkipsInit(autoInit, ready, wvInitialized) THEN wvInitialized ELSE TRUE)
  /\ wvImports' = (IF SkipsInit(autoInit, ready, wvInitialized) THEN wvImports ELSE wvImports + 1)

\* first render of the component that calls useWebVitals({autoInit})
VitalsMount(autoInit, ready, reportAll) ==
  /\ wvMounted = "no"
  /\ wvMounted' = "yes"
  /\ VitalsEffect(autoInit, ready, reportAll)
  /\ UNCHANGED <<wvRegistered, wvMissing, wvErrors, wvRenders, domVars, provVars, callVars, analyticsVars, formVars, httpVars, clickVars, pageViewVars>>

\* a re-render that changes a dependency of the effect: autoInit, isReady
\* (which never reverts), reportAllChanges or trackVital (configuration)
VitalsRender(autoInit, ready, reportAll) ==
  /\ wvMounted = "yes"
  /\ wvRenders < MaxRenders
  /\ wvReady => ready
  /\ wvRenders' = wvRenders + 1
  /\ VitalsEffect(autoInit, ready, reportAll)
  /\ UNCHANGED <<wvMounted, wvRegistered, wvMissing, wvErrors, domVars, provVars, callVars, analyticsVars, formVars, httpVars, clickVars, pageViewVars>>

\* the dynamic import settles, also after the component is gone: the library
\* is there and the five listeners are registered, or it is missing
ImportSettles(found) ==
  /\ wvImports > 0
  /\ wvImports' = wvImports - 1
  /\ wvRegistered' = (IF found THEN wvRegistered + 1 ELSE wvRegistered)
  /\ wvMissing' = (IF found THEN wvMissing ELSE wvMissing + 1)
  /\ wvErrors' = wvErrors + (IF found THEN 0 ELSE UnhandledRejections(found))
  /\ UNCHANGED <<wvMounted, wvAutoInit, wvReady, wvInitialized, wvRenders, wvReportAll, wvCaptured, domVars, provVars, callVars, analyticsVars, formVars, httpVars, clickVars, pageViewVars>>

VitalsUnmount ==
  /\ wvMounted = "yes"
  /\ wvMounted' = "gone"
  /\ UNCHANGED <<wvAutoInit, wvReady, wvInitialized, wvImports, wvRegistered, wvMissing, wvErrors, wvRenders, wvReportAll, wvCaptured, domVars, provVars, callVars, analyticsVars, formVars, httpVars, clickVars, pageViewVars>>

\* ------------------------------------------------------ consumer components
\* the provider the consumers are rendered under
Host == 1

\* the renders of TrackClick, OutboundLink and a component using useTrackEvent:
\* under the provider or not, with their props, the child's (or the anchor's
\* other) props and whether a click handler comes with them
CompInputs ==
  { [NoComp EXCEPT !.kind = "TrackClick", !.inside = i, !.event = "cta", !.data = [k \in {"variant"} |-> "hero"], !.childValid = ch[1], !.props = ch[2], !.onClick = "onClick" \in ch[2]] :
      i \in BOOLEAN, ch \in {<<TRUE, {"className"}>>, <<TRUE, {"className", "onClick"}>>, <<FALSE, {}>>} }
  \cup
  { [NoComp EXCEPT !.kind = "OutboundLink", !.inside = i, !.event = x[1], !.data = x[2], !.href = "https://o", !.childValid = TRUE, !.props = {"rel"}, !.onClick = x[3]] :
      i \in BOOLEAN, x \in {<<Undef, EmptyData, FALSE>>, <<"exit", [k \in {"source"} |-> "footer"], TRUE>>, <<Undef, [k \in {"url"} |-> "?"], TRUE>>} }
  \cup
  { [NoComp EXCEPT !.kind = "useTrackEvent", !.inside = i, !.event = "x", !.data = [k \in {"a"} |-> "1"]] : i \in BOOLEAN }

\* a context with a default value in place of null
UseEntrolyticsContextDefault(inside) == "value"

\* useContext(EntrolyticsContext) is null without a provider above: the hook throws
UseEntrolyticsContext(inside) == IF inside THEN "value" ELSE "throw"

\* what the render of c gives back
RenderOut(c) ==
  IF UseEntrolyticsContext(c.inside) = "throw" THEN [c EXCEPT !.out = "threw"]
  ELSE CASE c.kind = "TrackClick" -> IF c.childValid THEN [c EXCEPT !.out = "clone", !.outProps = c.props \cup {"onClick"}] ELSE [c EXCEPT !.out = "unmodified", !.outProps = c.props]
         [] c.kind = "OutboundLink" -> [c EXCEPT !.out = "anchor", !.outProps = {"href", "onClick"} \cup c.props]
         [] c.kind = "useTrackEvent" -> [c EXCEPT !.out = "function"]

\* the default of OutboundLink's event prop
OutboundEvent(ev) == IF ev = Undef THEN "outbound_link" ELSE ev

\* the arguments handleClick (or the function of useTrackEvent) gives to track
ClickArgs(c) ==
  IF c.kind = "OutboundLink" THEN [NoArgs EXCEPT !.name = OutboundEvent(c.event), !.data = Spread([k \in {"url"} |-> c.href], c.data)]
  ELSE [NoArgs EXCEPT !.name = c.event, !.data = c.data]

\* calls of the child's (or the caller's) click handler made by handleClick:
\* the statement after track(...), reached unless track threw
HandlerCalls(c, threw) == IF threw \/ c.kind = "useTrackEvent" THEN 0 ELSE IF c.onClick THEN 1 ELSE 0

\* a consumer component is rendered, under the provider or outside of any
Render(c) ==
  /\ c.inside => mounted[Host]
  /\ comp' = RenderOut(c)
  /\ UNCHANGED <<clicks, domVars, provVars, callVars, analyticsVars, formVars, httpVars, vitalsVars, pageViewVars>>

\* a click on the rendered element (a call of the function of useTrackEvent)
Click ==
  /\ comp.out \in {"clone", "anchor", "function"}
  /\ DispatchN(Host, [op |-> "track", args |-> ClickArgs(comp)], MaxClicks)
  /\ LET i == Len(calls) + 1
         threw == calls'[i].status = "threw"
     IN  clicks' = Append(clicks, [call |-> i, comp |-> comp, threw |-> threw, handler |-> HandlerCalls(comp, threw)])
  /\ UNCHANGED <<comp, analyticsVars, formVars, httpVars, vitalsVars, pageViewVars>>

\* --------------------------------------------------------- useTrackPageView
Urls == {"/a", "/b"}
Referrers == {Undef, "/from"}

\* an effect that tracks on every run
SameUrlNever(prev, url) == FALSE

\* the early return of the effect: prevUrlRef.current === url
SameUrl(prev, url) == prev = url

\* the dependencies of the effect changed since the last render (or there was none)
DepsChanged(h, url, referrer, newFn) == h = <<>> \/ h[Len(h)].url # url \/ h[Len(h)].referrer # referrer \/ newFn

\* a render of the component that calls useTrackPageView(url, referrer) under
\* the provider, and its effect when a dependency changed
PageViewRender(url, referrer, newFn) ==
  /\ mounted[Host]
  /\ pvMounted # "gone"
  /\ Len(pvHistory) < MaxViews
  /\ pvMounted' = "yes"
  /\ pvHistory' = Append(pvHistory, [url |-> url, referrer |-> referrer, newFn |-> newFn])
  /\ IF DepsChanged(pvHistory, url, referrer, newFn) /\ ~SameUrl(prevUrlRef, url)
       THEN /\ prevUrlRef' = url
            /\ DispatchN(Host, [op |-> "trackPageView", args |-> [NoArgs EXCEPT !.url = url, !.referrer = referrer]], MaxViews)
       ELSE UNCHANGED <<prevUrlRef, domVars, provVars, callVars>>
  /\ UNCHANGED <<analyticsVars, formVars, httpVars, vitalsVars, clickVars>>

PageViewUnmount ==
  /\ pvMounted = "yes"
  /\ pvMounted' = "gone"
  /\ UNCHANGED <<prevUrlRef, pvHistory, domVars, provVars, callVars, analyticsVars, formVars, httpVars, vitalsVars, clickVars>>

\* ---------------------------------------------------------- specification
\* The script loader: every provider mounts, re-renders and unmounts; scripts
\* load or fail.
LoaderNext ==
  \/ (\E p \in Providers, c \in Configs : Mount(p, c, FALSE)) /\ UNCHANGED <<analyticsVars, formVars, laterVars>>
  \/ (\E p \in Providers, c \in Configs : ConfigChange(p, c)) /\ UNCHANGED <<analyticsVars, formVars, laterVars>>
  \/ (\E p \in Providers : Unmount(p)) /\ UNCHANGED <<analyticsVars, formVars, laterVars>>
  \/ (\E e \in DOMAIN scripts : ScriptLoad(e)) /\ UNCHANGED <<analyticsVars, formVars, laterVars>>
  \/ (\E e \in DOMAIN scripts : ScriptError(e)) /\ UNCHANGED <<analyticsVars, formVars, laterVars>>

LoaderSpec == Init /\ [][LoaderNext]_vars

\* The bridge and the dispatch API on the context of one provider, which
\* mounts, re-renders and unmounts while its consumers dispatch.
Next ==
  \/ (\E c \in Configs, bs \in BOOLEAN : Mount(Host, c, bs)) /\ UNCHANGED <<analyticsVars, formVars, laterVars>>
  \/ (\E c \in Configs : ConfigChange(Host, c)) /\ UNCHANGED <<analyticsVars, formVars, laterVars>>
  \/ (\E bs \in BOOLEAN : BeforeSendChange(Host, bs)) /\ UNCHANGED <<analyticsVars, formVars, laterVars>>
  \/ Unmount(Host) /\ UNCHANGED <<analyticsVars, formVars, laterVars>>
  \/ (\E e \in DOMAIN scripts : ScriptLoad(e)) /\ UNCHANGED <<analyticsVars, formVars, laterVars>>
  \/ (\E in \in DispatchInputs : Dispatch(Host, in)) /\ UNCHANGED <<analyticsVars, formVars, laterVars>>
  \/ TimerFire /\ UNCHANGED <<analyticsVars, formVars, laterVars>>
  \/ (\E t \in SetTagInputs : SetTag(Host, t)) /\ UNCHANGED <<analyticsVars, formVars, laterVars>>

Spec == Init /\ [][Next]_vars

\* timers that are due do fire
FairSpec == Spec /\ WF_vars(TimerFire /\ UNCHANGED <<analyticsVars, formVars, laterVars>>)

\* The bridge provider on a page whose other code may remove the script
\* element, with page views and identify calls polling.
DetachNext ==
  \/ (\E c \in Configs : Mount(Host, c, FALSE)) /\ UNCHANGED <<analyticsVars, formVars, laterVars>>
  \/ (\E c \in Configs : ConfigChange(Host, c)) /\ UNCHANGED <<analyticsVars, formVars, laterVars>>
  \/ Unmount(Host) /\ UNCHANGED <<analyticsVars, formVars, laterVars>>
  \/ (\E e \in DOMAIN scripts : ScriptLoad(e)) /\ UNCHANGED <<analyticsVars, formVars, laterVars>>
  \/ (\E in \in {x \in DispatchInputs : x.op \in {"trackPageView", "identify"}} : Dispatch(Host, in)) /\ UNCHANGED <<analyticsVars, formVars, laterVars>>
  \/ TimerFire /\ UNCHANGED <<analyticsVars, formVars, laterVars>>
  \/ ExternalRemove /\ UNCHANGED <<analyticsVars, formVars, laterVars>>

DetachSpec == Init /\ [][DetachNext]_vars

\* Two dispatches in a row on one provider, each with its own poll.
OrderInputs == {x \in DispatchInputs : x.op = "identify" \/ (x.op = "trackPageView" /\ x.args.url # Undef)}

OrderNext ==
  \/ (\E c \in Configs : Mount(Host, c, FALSE)) /\ UNCHANGED <<analyticsVars, formVars, laterVars>>
  \/ Unmount(Host) /\ UNCHANGED <<analyticsVars, formVars, laterVars>>
  \/ (\E e \in DOMAIN scripts : ScriptLoad(e)) /\ UNCHANGED <<analyticsVars, formVars, laterVars>>
  \/ (\E in \in OrderInputs : DispatchN(Host, in, MaxPending)) /\ UNCHANGED <<analyticsVars, formVars, laterVars>>
  \/ TimerFire /\ UNCHANGED <<analyticsVars, formVars, laterVars>>

OrderSpec == Init /\ [][OrderNext]_vars

\* timers that are due do fire
OrderFairSpec == OrderSpec /\ WF_vars(TimerFire /\ UNCHANGED <<analyticsVars, formVars, laterVars>>)

\* TrackClick, OutboundLink and useTrackEvent under (or without) one provider.
ClickNext ==
  \/ (\E c \in Configs, bs \in BOOLEAN : Mount(Host, c, bs)) /\ UNCHANGED <<analyticsVars, formVars, laterVars>>
  \/ (\E e \in DOMAIN scripts : ScriptLoad(e)) /\ UNCHANGED <<analyticsVars, formVars, laterVars>>
  \/ TimerFire /\ UNCHANGED <<analyticsVars, formVars, laterVars>>
  \/ \E c \in CompInputs : Render(c)
  \/ Click

ClickSpec == Init /\ [][ClickNext]_vars

\* One mount of a component that uses useTrackPageView under one provider.
PageViewNext ==
  \/ (\E c \in Configs : Mount(Host, c, FALSE)) /\ UNCHANGED <<analyticsVars, formVars, laterVars>>
  \/ (\E e \in DOMAIN scripts : ScriptLoad(e)) /\ UNCHANGED <<analyticsVars, formVars, laterVars>>
  \/ TimerFire /\ UNCHANGED <<analyticsVars, formVars, laterVars>>
  \/ \E url \in Urls, referrer \in Referrers, newFn \in BOOLEAN : PageViewRender(url, referrer, newFn)
  \/ PageViewUnmount

PageViewSpec == Init /\ [][PageViewNext]_vars

\* Pages that use <Analytics> in place of the provider.
AnalyticsNext ==
  \/ \E p \in Providers, in \in AnalyticsInputs : AnalyticsRender(p, in)
  \/ \E p \in Providers : AnalyticsUnmount(p)
  \/ (\E e \in DOMAIN scripts : ScriptLoad(e)) /\ UNCHANGED <<analyticsVars, formVars, laterVars>>
  \/ (\E e \in DOMAIN scripts : ScriptError(e)) /\ UNCHANGED <<analyticsVars, formVars, laterVars>>

AnalyticsSpec == Init /\ [][AnalyticsNext]_vars

\* A form tracked through useFormTracking with automatic field tracking.
FormNext ==
  \/ \E timing \in BOOLEAN : FormMount(timing)
  \/ \E target \in Targets : FocusIn(target)
  \/ \E target \in Targets : FocusOut(target)
  \/ \E f \in Fields : FieldError(f, "required")
  \/ ManualStart
  \/ \E success \in {"true", "false"} : Submit(success)
  \/ \E leaves \in BOOLEAN : BeforeUnload(leaves)
  \/ Tick

FormSpec == Init /\ [][FormNext]_vars

\* Components that send form events and web vitals over HTTP.
HttpNext ==
  \/ \E kind \in HttpKinds, outcome \in FetchOutcomes : HttpTrack(kind, outcome)

HttpSpec == Init /\ [][HttpNext]_vars

\* One mount of a component that uses useWebVitals.
VitalsNext ==
  \/ \E autoInit \in BOOLEAN, ready \in BOOLEAN, reportAll \in BOOLEAN : VitalsMount(autoInit, ready, reportAll)
  \/ \E autoInit \in BOOLEAN, ready \in BOOLEAN, reportAll \in BOOLEAN : VitalsRender(autoInit, ready, reportAll)
  \/ \E found \in BOOLEAN : ImportSettles(found)
  \/ VitalsUnmount

VitalsSpec == Init /\ [][VitalsNext]_vars

\* ------------------------------------------------------------- properties
\* the tag key of a payload, and what stamping a held tag leaves in it
TagOf(data) == IF "tag" \in DOMAIN data THEN data["tag"] ELSE Undef
StampedTag(t) == IF Truthy(t) THEN t ELSE Undef
Delivered(i) == \E k \in DOMAIN received : received[k].call = i
TagOps == {"trackPageView", "trackRevenue"}

\* C1: in every reachable state the document holds at most one script element
\* with the reserved id, whatever providers mount, re-render, unmount or load.
C1_AtMostOneScript == Len(doc) <= 1
C1_Witness == mounted[1] /\ mounted[2] /\ Len(doc) = 1 /\ Len(scripts) = 2

\* C2 (as claimed): every invocation of the tracker is made while isReady of
\* the dispatching provider is true.
C2_ReadyAtInvocation == \A k \in DOMAIN received : received[k].ready
\* C2 (amended): every invocation of the tracker is made while the global
\* tracker object is present; isReady may still be false then.
C2_TrackerAtInvocation == \A k \in DOMAIN received : received[k].present
C2_Witness == \E k \in DOMAIN received : received[k].present /\ ~received[k].ready

\* C3: a callback handed to waitForTracker never runs while the tracker is
\* absent and never runs twice; handed over while the tracker is present it
\* runs inside the call; handed over while it is absent it runs, once, after
\* the tracker became available.
C3_Safety == \A i \in DOMAIN calls : calls[i].fires <= 1 /\ ~calls[i].firedAbsent /\ (calls[i].issuedAbsent => ~calls[i].sync) /\ (~calls[i].issuedAbsent => calls[i].sync /\ calls[i].fires = 1)
C3_WaitForTracker == []C3_Safety /\ \A i \in 1..MaxCalls : ((i \in DOMAIN calls /\ tracker) ~> (i \in DOMAIN calls /\ calls[i].fires = 1))
C3_Witness == \E i \in DOMAIN calls : calls[i].issuedAbsent /\ calls[i].fires = 1 /\ ~calls[i].sync /\ tracker

\* C4: a dispatch issued while the tracker is absent is deferred, not dropped:
\* once the tracker is available the tracker receives its invocation, unless
\* beforeSend suppressed it.
C4_DeferredNotDropped == \A i \in 1..MaxCalls : ((i \in DOMAIN calls /\ calls[i].issuedAbsent /\ tracker) ~> (i \in DOMAIN calls /\ (Delivered(i) \/ calls[i].status = "suppressed")))
C4_Witness == \E i \in DOMAIN calls : calls[i].issuedAbsent /\ Delivered(i)

\* C5 (as claimed): whenever isReady of a mounted provider is true, the global
\* tracker object is available.
C5_ReadyImpliesTracker == \A p \in Providers : (mounted[p] /\ isReady[p]) => tracker

\* C6: a mount that finds an element with the reserved id in the document
\* adds no script element and makes the provider ready in that effect run.
C6_MountOnExisting == [][\A p \in Providers : (~mounted[p] /\ mounted'[p] /\ Len(doc) > 0) => (doc' = doc /\ scripts' = scripts /\ isReady'[p])]_vars
C6_Witness == \E p \in Providers : mounted[p] /\ ~injected[p] /\ isReady[p] /\ Len(doc) = 1 /\ ~tracker

\* C7: a provider that is ready stays ready for as long as it is mounted.
C7_NeverReverts == [][\A p \in Providers : (mounted[p] /\ mounted'[p] /\ isReady[p]) => isReady'[p]]_vars
C7_Witness == \E p \in Providers, e \in DOMAIN scripts : mounted[p] /\ isReady[p] /\ OwnScript(p, e) /\ scripts[e].state = "loading" /\ e \in {doc[k] : k \in DOMAIN doc}

\* C8 (as claimed): every (mount, configuration) pair whose script is found or
\* finishes loading shows exactly one not-ready-to-ready transition.
C8_OnePerConfiguration == \A p \in Providers : mounted[p] => (epochTransitions[p] <= 1 /\ (epochDone[p] => epochTransitions[p] = 1))
\* C8 (amended): every mount cycle shows at most one not-ready-to-ready
\* transition, and exactly one once a script of that mount is found or
\* finishes loading, however often the configuration changes.
C8_OnePerMount == \A p \in Providers : mounted[p] => (mountTransitions[p] <= 1 /\ (mountDone[p] => mountTransitions[p] = 1))
C8_Witness == \E p \in Providers : mounted[p] /\ mountTransitions[p] = 1 /\ epochTransitions[p] = 0 /\ epochDone[p] /\ injected[p]

\* C9 (as claimed): a page view or revenue dispatch is delivered with the tag
\* that was current when it was issued.
C9_TagAtIssue == \A k \in DOMAIN received : calls[received[k].call].op \in TagOps => TagOf(received[k].data) = StampedTag(calls[received[k].call].issuedTag)
\* C9 (amended): a page view or revenue dispatch is delivered with the tag
\* held when its callback runs, so setTag does change a pending dispatch.
C9_TagAtFire == \A k \in DOMAIN received : calls[received[k].call].op \in TagOps => TagOf(received[k].data) = StampedTag(calls[received[k].call].firedTag)
C9_Witness == \E k \in DOMAIN received : calls[received[k].call].op \in TagOps /\ calls[received[k].call].issuedAbsent /\ calls[received[k].call].issuedTag = Undef /\ TagOf(received[k].data) = "T"

\* C10 (as claimed): the invocation the tracker receives for a track() call
\* issued while the tracker was absent carries the tag held when it fires.
C10_TrackTagAtFire == \A k \in DOMAIN received : (calls[received[k].call].op = "track" /\ calls[received[k].call].issuedAbsent) => TagOf(received[k].data) = StampedTag(calls[received[k].call].firedTag)

\* C11 (as claimed): for a track() whose callback ran with beforeSend
\* configured, a null result leaves the tracker without any invocation for it,
\* and every other result gives exactly one track invocation carrying the
\* eventName and eventData of the call.
C11_BeforeSendGate == \A i \in DOMAIN calls : (calls[i].op = "track" /\ calls[i].bs /\ calls[i].fires = 1) => IF calls[i].bsResult = "null" THEN ~Delivered(i) ELSE (Cardinality({k \in DOMAIN received : received[k].call = i}) = 1 /\ \A k \in DOMAIN received : received[k].call = i => (received[k].fn = "track" /\ received[k].name = calls[i].args.name /\ received[k].data = calls[i].args.data))

\* C12 (as claimed): every invocation the tracker receives from a provider
\* that is rendered with beforeSend follows a beforeSend invocation made for
\* that same dispatch.
C12_BeforeSendEveryDispatch == [][\A k \in DOMAIN received' : (k \notin DOMAIN received /\ calls'[received'[k].call].live /\ beforeSend[calls'[received'[k].call].p]) => calls'[received'[k].call].bsCalls >= 1]_vars

\* C13: every invocation the tracker receives for a revenue dispatch is a
\* track of the call's eventName whose data holds the call's revenue, the
\* call's currency or 'USD' when that was omitted, every other key of the
\* caller's data unchanged, and the tag held at fire time when one is set,
\* and nothing else.
RevenueOps == {"trackRevenue", "useTrackRevenue"}
C13_RevenuePayload == \A k \in DOMAIN received : calls[received[k].call].op \in RevenueOps => (received[k].fn = "track" /\ received[k].name = calls[received[k].call].args.name /\ DOMAIN received[k].data = (DOMAIN calls[received[k].call].args.data) \cup {"revenue", "currency"} \cup (IF Truthy(calls[received[k].call].firedTag) THEN {"tag"} ELSE {}) /\ received[k].data["revenue"] = calls[received[k].call].args.revenue /\ received[k].data["currency"] = (IF calls[received[k].call].args.currency = Undef THEN "USD" ELSE calls[received[k].call].args.currency) /\ (\A key \in (DOMAIN calls[received[k].call].args.data) \ {"revenue", "currency", "tag"} : received[k].data[key] = calls[received[k].call].args.data[key]) /\ (Truthy(calls[received[k].call].firedTag) => received[k].data["tag"] = calls[received[k].call].firedTag))
C13_Witness == \E k \in DOMAIN received : calls[received[k].call].op = "trackRevenue" /\ calls[received[k].call].args.currency = Undef /\ received[k].name = "purchase" /\ DOMAIN received[k].data = {"revenue", "currency", "sku"} /\ received[k].data["revenue"] = "10" /\ received[k].data["currency"] = "USD" /\ received[k].data["sku"] = "abc"

\* C14: when a provider whose effect injected the script unmounts, the
\* document holds no element with the reserved id afterwards; when the element
\* was already gone the cleanup leaves the document as it is; in both cases
\* the unmount completes and the polls in flight, the calls and what the
\* tracker received are untouched.
C14_CleanupOnUnmount == [][\A p \in Providers : (mounted[p] /\ ~mounted'[p] /\ injected[p]) => (Len(doc') = 0 /\ (Len(doc) = 0 => doc' = doc) /\ timerQ' = timerQ /\ received' = received /\ \A i \in DOMAIN calls : calls'[i].status = calls[i].status /\ calls'[i].fires = calls[i].fires)]_vars
C14_Witness == ~mounted[Host] /\ Len(doc) = 0 /\ Len(timerQ) > 0 /\ Len(scripts) = 1 /\ scripts[1].pageRemoved /\ scripts[1].owner = 0 /\ scripts[1].state = "loading"

\* C15 (as claimed): the script element in the document carries the source
\* and the data attributes derived from the current configuration of every
\* mounted provider, whatever configuration changes came before.
C15_ScriptCurrent == \A p \in Providers : mounted[p] => (Len(doc) = 1 /\ scripts[doc[1]].src = (IF config[p].useEdgeRuntime THEN <<"https://ng.entrolytics.click", "/script-edge.js">> ELSE <<"https://h", "/script.js">>) /\ scripts[doc[1]].dataset = (IF config[p].useEdgeRuntime THEN [k \in {"websiteId"} |-> <<"w1">>] ELSE [k \in {"websiteId", "autoTrack", "doNotTrack", "domains", "tag", "excludeSearch", "excludeHash"} |-> CASE k = "websiteId" -> <<"w1">> [] k = "autoTrack" -> <<"false">> [] k = "domains" -> <<"a.com", ",", "b.com">> [] k = "tag" -> <<"T">> [] OTHER -> <<"true">>]))
\* C15 (amended): that holds for the provider whose latest effect run injected
\* the element, after each of its configuration changes; a provider that found
\* an element leaves it as it is.
C15_InjectedScriptCurrent == \A p \in Providers : (mounted[p] /\ injected[p]) => (Len(doc) = 1 /\ scripts[doc[1]].owner = p /\ scripts[doc[1]].id = SCRIPT_ID /\ scripts[doc[1]].src = (IF config[p].useEdgeRuntime THEN <<"https://ng.entrolytics.click", "/script-edge.js">> ELSE <<"https://h", "/script.js">>) /\ scripts[doc[1]].dataset = (IF config[p].useEdgeRuntime THEN [k \in {"websiteId"} |-> <<"w1">>] ELSE [k \in {"websiteId", "autoTrack", "doNotTrack", "domains", "tag", "excludeSearch", "excludeHash"} |-> CASE k = "websiteId" -> <<"w1">> [] k = "autoTrack" -> <<"false">> [] k = "domains" -> <<"a.com", ",", "b.com">> [] k = "tag" -> <<"T">> [] OTHER -> <<"true">>]))
C15_Witness == \E p \in Providers : mounted[p] /\ injected[p] /\ ~config[p].useEdgeRuntime /\ Len(scripts) = 2 /\ doc = <<2>> /\ scripts[1].owner = p /\ scripts[1].src = <<"https://ng.entrolytics.click", "/script-edge.js">> /\ scripts[2].src = <<"https://h", "/script.js">>

\* C16: an <Analytics> rendered with no website id in its props and none in
\* the environment, in development or in production, renders null, mounts no
\* provider and leaves the document and the script elements as they were.
C16_NoIdRendersNothing == [][\A p \in Providers : (analyticsOut[p] = "none" /\ analyticsOut'[p] # "none" /\ ~Truthy(analyticsIn'[p].websiteId) /\ ~Truthy(analyticsIn'[p].reactAppId) /\ ~Truthy(analyticsIn'[p].viteId)) => (analyticsOut'[p] = "null" /\ ~mounted'[p] /\ doc' = doc /\ scripts' = scripts)]_vars
C16_Witness == \E p, q \in Providers : analyticsOut[p] = "null" /\ analyticsOut[q] = "null" /\ analyticsIn[p].nodeEnv = "development" /\ analyticsIn[q].nodeEnv = "production" /\ warned /\ Len(scripts) = 0

\* the index at which the form session of event j begins: the event after
\* the latest submit before j
SessionFirst(j) == LET subs == {k \in 1..(j - 1) : formEvents[k].eventType = "submit"} IN IF subs = {} THEN 1 ELSE (CHOOSE k \in subs : \A l \in subs : l <= k) + 1
Latest(S) == CHOOSE k \in S : \A l \in S : l <= k

\* C17: in the sequence of form events sent, every field_focus is preceded,
\* within its session, by exactly one start event: the focus that opens a
\* session sends start first.
C17_StartBeforeFocus == \A j \in DOMAIN formEvents : formEvents[j].eventType = "field_focus" => (j > SessionFirst(j) /\ Cardinality({i \in SessionFirst(j)..(j - 1) : formEvents[i].eventType = "start"}) = 1)
C17_Witness == Len(formEvents) >= 3 /\ formEvents[1].eventType = "start" /\ formEvents[2].eventType = "field_focus" /\ formEvents[1].at = formEvents[2].at /\ formEvents[3].eventType = "field_focus" /\ stateRef.hasInteracted

\* C18: a trackSubmit sends one submit event and leaves startTime null, no
\* field start times, hasInteracted false and lastFieldName null, whatever the
\* state before; a field focus that follows a submit directly sends start and
\* then field_focus.
C18_SubmitResets == [][(Len(formEvents') > Len(formEvents) /\ formEvents'[Len(formEvents')].eventType = "submit" => (Len(formEvents') = Len(formEvents) + 1 /\ stateRef'.startTime = Null /\ DOMAIN stateRef'.fieldStartTimes = {} /\ ~stateRef'.hasInteracted /\ stateRef'.lastFieldName = Undef)) /\ (Len(formEvents) > 0 /\ formEvents[Len(formEvents)].eventType = "submit" /\ Len(formEvents') > Len(formEvents) /\ formEvents'[Len(formEvents')].eventType = "field_focus" => (Len(formEvents') = Len(formEvents) + 2 /\ formEvents'[Len(formEvents) + 1].eventType = "start"))]_vars
C18_Witness == \E j \in DOMAIN formEvents : j > 1 /\ j + 2 \in DOMAIN formEvents /\ formEvents[j].eventType = "submit" /\ formEvents[j].timeSinceStart # Null /\ formEvents[j + 1].eventType = "start" /\ formEvents[j + 2].eventType = "field_focus"

\* C19 (as claimed): every abandon event follows a focus and the start of its
\* session, names the field focused last and the time since that start, and
\* no session has two abandon events.
C19_AbandonOnce == \A j \in DOMAIN formEvents : formEvents[j].eventType = "abandon" => ((\E i \in SessionFirst(j)..(j - 1) : formEvents[i].eventType = "start" /\ formEvents[j].timeSinceStart = formEvents[j].at - formEvents[i].at) /\ (\E i \in SessionFirst(j)..(j - 1) : formEvents[i].eventType = "field_focus") /\ formEvents[j].fieldName = formEvents[Latest({i \in SessionFirst(j)..(j - 1) : formEvents[i].eventType = "field_focus"})].fieldName /\ ~\E i \in SessionFirst(j)..(j - 1) : formEvents[i].eventType = "abandon")

\* C20: with trackTiming, a field_blur of a field that was focused in the
\* current session reports as timeOnField its own time minus the time of the
\* latest field_focus of that field in the session.
C20_TimeOnField == trackTiming => \A j \in DOMAIN formEvents : (formEvents[j].eventType = "field_blur" /\ (\E i \in SessionFirst(j)..(j - 1) : formEvents[i].eventType = "field_focus" /\ formEvents[i].fieldName = formEvents[j].fieldName)) => formEvents[j].timeOnField = formEvents[j].at - formEvents[Latest({i \in SessionFirst(j)..(j - 1) : formEvents[i].eventType = "field_focus" /\ formEvents[i].fieldName = formEvents[j].fieldName})].at
C20_Witness == trackTiming /\ Len(formEvents) = 4 /\ formEvents[2].eventType = "field_focus" /\ formEvents[2].fieldName = "email" /\ formEvents[2].at = 1 /\ formEvents[3].eventType = "field_focus" /\ formEvents[3].fieldName = "email" /\ formEvents[3].at = 2 /\ formEvents[4].eventType = "field_blur" /\ formEvents[4].fieldName = "email" /\ formEvents[4].at = 3 /\ formEvents[4].timeOnField = 1

C22_AttachOnce == wvRegistered <= 1 /\ wvRegistered + wvMissing + wvImports <= 1 /\ wvErrors = 0 /\ (wvRegistered + wvMissing + wvImports = 1 => wvInitialized)
C22_Witness == wvRegistered = 1 /\ wvRenders = 3 /\ wvMounted = "yes" /\ wvReady /\ wvAutoInit /\ wvReportAll /\ wvCaptured = "final"

\* the place of call i's invocation in what the tracker received (0: none)
PosOf(i) == IF \E k \in DOMAIN received : received[k].call = i THEN CHOOSE k \in DOMAIN received : received[k].call = i ELSE 0
Waiting == {i \in DOMAIN calls : calls[i].status = "pending"}
TimersOf(i) == {k \in DOMAIN timerQ : timerQ[k] = i}

\* C26: of two dispatches issued while the tracker was absent, the one issued
\* first has its tracker invocation first.
C26_IssueOrder == \A i \in DOMAIN calls, j \in DOMAIN calls : (i < j /\ calls[i].issuedAbsent /\ calls[j].issuedAbsent /\ PosOf(j) # 0) => (PosOf(i) # 0 /\ PosOf(i) < PosOf(j))

\* C27: a dispatch issued while the tracker is present is invoked inside the
\* call (its callback has run once when the call returns, no timer is set for
\* it, the tracker has its invocation), and the tracker has the invocations
\* of such calls in call order.
C27_SyncOrder == \A i \in DOMAIN calls : ~calls[i].issuedAbsent => (calls[i].sync /\ calls[i].fires = 1 /\ TimersOf(i) = {} /\ PosOf(i) # 0 /\ \A j \in DOMAIN calls : (i < j /\ ~calls[j].issuedAbsent) => PosOf(i) < PosOf(j))
C27_Witness == Len(calls) = 2 /\ ~calls[1].issuedAbsent /\ ~calls[2].issuedAbsent /\ Len(received) = 2 /\ received[1].call = 1 /\ received[2].call = 2 /\ received[1].fn # received[2].fn

\* C28: a dispatch pending when its provider unmounts keeps its poll timer;
\* once the tracker is there its callback runs, exactly once, and that step
\* changes no provider state.
C28_OrphanPolls == \A i \in DOMAIN calls : (~calls[i].live => (calls[i].fires <= 1 /\ (calls[i].status = "pending" => TimersOf(i) # {}))) /\ (calls[i].fires = 1 => TimersOf(i) = {})
C28_OrphanCallback == [][\A i \in DOMAIN calls : (~calls[i].live /\ calls[i].fires = 0 /\ calls'[i].fires = 1) => (UNCHANGED provVars /\ UNCHANGED domVars /\ PosOf(i)' # 0 /\ received'[PosOf(i)'].ready = calls[i].heldReady)]_vars
OrphanWaiting(i) == IF i \in DOMAIN calls THEN ~calls[i].live /\ calls[i].status = "pending" /\ tracker ELSE FALSE
OrphanFired(i) == IF i \in DOMAIN calls THEN calls[i].fires = 1 /\ PosOf(i) # 0 ELSE FALSE
C28_OrphanFiresOnce == []C28_OrphanPolls /\ C28_OrphanCallback /\ \A i \in 1..MaxPending : (OrphanWaiting(i) ~> OrphanFired(i))
C28_Witness == \E i \in DOMAIN calls : ~calls[i].live /\ calls[i].fires = 1 /\ ~calls[i].sync /\ calls[i].status = "delivered" /\ ~mounted[Host] /\ PosOf(i) # 0

\* C30: every waiting dispatch has at most one timer set, a dispatch whose
\* callback has run has none, and there are never more timers than waiting
\* dispatches.
C30_OneTimerEach == (\A i \in DOMAIN calls : Cardinality(TimersOf(i)) <= 1 /\ (calls[i].fires > 0 => TimersOf(i) = {})) /\ Len(timerQ) <= Cardinality(Waiting)
C30_Witness == Len(calls) = 2 /\ calls[1].fires = 1 /\ ~calls[1].sync /\ calls[2].status = "pending" /\ timerQ = <<2>> /\ tracker

\* C23: a component that needs the provider and is rendered without one
\* above it throws in that render, which dispatches nothing and reaches no
\* tracker; nothing is ever dispatched through it.
C23_OutsideProviderThrows == [][((comp' # comp /\ ~comp'.inside) => (comp'.out = "threw" /\ UNCHANGED callVars)) /\ (clicks' # clicks => (comp.inside /\ comp.out # "threw"))]_vars
C23_Witness == comp.out = "threw" /\ ~comp.inside /\ comp.kind = "TrackClick" /\ mounted[Host] /\ tracker /\ Len(calls) = 1 /\ Len(clicks) = 1

\* C24: every click on the element TrackClick returns dispatches track(event,
\* data) and then calls the child's click handler once if it has one; the
\* element keeps the child's props; an invalid child comes back as it is and
\* takes no click.
C24_TrackClick == (\A k \in DOMAIN clicks : clicks[k].comp.kind = "TrackClick" => (calls[clicks[k].call].op = "track" /\ calls[clicks[k].call].args.name = clicks[k].comp.event /\ calls[clicks[k].call].args.data = clicks[k].comp.data /\ clicks[k].comp.childValid /\ clicks[k].handler = (IF clicks[k].comp.onClick THEN 1 ELSE 0))) /\ ((comp.kind = "TrackClick" /\ comp.inside) => (IF comp.childValid THEN comp.out = "clone" /\ comp.props \subseteq comp.outProps ELSE comp.out = "unmodified" /\ comp.outProps = comp.props))

\* C25: every click on an OutboundLink dispatches one event, named
\* 'outbound_link' unless the event prop is given, whose data has url equal to
\* href and the caller's other data, and then calls the caller's click handler
\* if there is one.
C25_OutboundLink == \A k \in DOMAIN clicks : clicks[k].comp.kind = "OutboundLink" => LET a == calls[clicks[k].call].args c == clicks[k].comp IN (a.name = (IF c.event = Undef THEN "outbound_link" ELSE c.event) /\ a.data["url"] = c.href /\ (\A key \in DOMAIN c.data \ {"url"} : key \in DOMAIN a.data /\ a.data[key] = c.data[key]) /\ clicks[k].handler = (IF c.onClick THEN 1 ELSE 0))

\* the renders whose url is not the url of the render before (the first is one)
UrlChanges == {k \in DOMAIN pvHistory : k = 1 \/ pvHistory[k].url # pvHistory[k - 1].url}
Nth(S, n) == CHOOSE k \in S : Cardinality({m \in S : m <= k}) = n

\* C29: useTrackPageView has called trackPageView once for every render whose
\* url differs from the url of the render before, the first render included,
\* with the url and referrer of that render, and not for any other render.
C29_PageViewPerUrlChange == Len(calls) = Cardinality(UrlChanges) /\ \A n \in DOMAIN calls : (calls[n].op = "trackPageView" /\ calls[n].args.url = pvHistory[Nth(UrlChanges, n)].url /\ calls[n].args.referrer = pvHistory[Nth(UrlChanges, n)].referrer)
C29_Witness == Len(pvHistory) = 3 /\ pvHistory[1].url = pvHistory[2].url /\ pvHistory[1].referrer # pvHistory[2].referrer /\ pvHistory[3].url = pvHistory[2].url /\ pvHistory[3].referrer = pvHistory[2].referrer /\ pvHistory[3].newFn /\ Len(calls) = 1 /\ Len(received) = 1

\* C31: no form session has two 'start' events: a 'start' is the only one
\* since the mount or the last submit, whether trackStart was called by the
\* application or by the first field focus.
C31_OneStartPerSession == \A j \in DOMAIN formEvents : formEvents[j].eventType = "start" => ~\E i \in SessionFirst(j)..(j - 1) : formEvents[i].eventType = "start"
C31_Witness == Len(formEvents) = 4 /\ formEvents[1].eventType = "start" /\ formEvents[1].at = 1 /\ formEvents[2].eventType = "field_focus" /\ formEvents[2].at = 2 /\ formEvents[2].timeSinceStart = 1 /\ formEvents[3].eventType = "submit" /\ formEvents[4].eventType = "start" /\ ~stateRef.hasInteracted

\* C32: an 'abandon' event sent by the unload handler follows a field focus
\* of its own session: after a submit with no later focus, beforeunload adds
\* no event, whatever else was called in between.
C32_NoAbandonAfterSubmit == [][(Len(formEvents') > Len(formEvents) /\ formEvents'[Len(formEvents')].eventType = "abandon") => (stateRef.hasInteracted /\ \E i \in SessionFirst(Len(formEvents'))..Len(formEvents) : formEvents[i].eventType = "field_focus")]_vars
C32_Witness == ~formMounted /\ Len(formEvents) = 4 /\ formEvents[2].eventType = "field_focus" /\ formEvents[3].eventType = "submit" /\ formEvents[4].eventType = "start" /\ stateRef.startTime # Null /\ ~stateRef.hasInteracted

\* C33: when a provider whose last effect run found the element unmounts or
\* is re-configured, every script element of the document stays in it, as it
\* was; an element leaves the document only in an unmount or re-configuration
\* of a provider whose last effect run injected one.
InDoc(d) == {d[k] : k \in DOMAIN d}
Leaves(p) == mounted[p] /\ (~mounted'[p] \/ config'[p] # config[p])
C33_NonInjectorKeepsScript == [][(\A p \in Providers : (Leaves(p) /\ ~injected[p]) => (InDoc(doc) \subseteq InDoc(doc') /\ \A e \in InDoc(doc) : scripts'[e] = scripts[e])) /\ (InDoc(doc) \ InDoc(doc') # {} => \E p \in Providers : Leaves(p) /\ injected[p])]_vars
C33_Witness == mounted[1] /\ injected[1] /\ mounted[2] /\ ~injected[2] /\ mountTransitions[2] = 1 /\ epochTransitions[2] = 0 /\ Len(scripts) = 1 /\ doc = <<1>> /\ scripts[1].owner = 1 /\ config[2] # config[1]

====
